---- MODULE Spec2Model ----
(***************************************************************************)
(* Plate-geometry inference of bioio-nd2 (src/bioio_nd2/plates.py).        *)
(*                                                                         *)
(* Lengths are integers in units of 10 micrometres (TLC's integers are    *)
(* 32-bit and the squared distances of find_closest_well over a plate of   *)
(* 126600 um do not fit in micrometres): 9000 um is 900, 1000 um is 100,   *)
(* 126.6 mm is 12660.  Every constant of PLATE_96 is a multiple of 10 um,  *)
(* and every value the code computes from it (63300.0, 42850.0, 14300.0,   *)
(* 11360.0, -49000.0, -31490.0 and the well centers) is an integer that    *)
(* IEEE doubles represent and compute exactly, so integer arithmetic is    *)
(* the code's arithmetic.                                                  *)
(*                                                                         *)
(* A Python call ends by returning a value or by raising; a result is a    *)
(* record with status "ok" (value) or "raise" (exc, msg).  "none" marks a  *)
(* function that has not been called in the session.  A dict is a          *)
(* function; a list is a sequence (Python index i is element i + 1).       *)
(***************************************************************************)
EXTENDS Integers, Sequences, FiniteSets, TLC

VARIABLES rdr, spec, wells, position_xy, num_scenes, scene_to_position,
          closest, translated, scene_to_well

vars == <<rdr, spec, wells, position_xy, num_scenes, scene_to_position,
          closest, translated, scene_to_well>>

----------------------------------------------------------------------------
(* Bounds of the synthetic inputs                                          *)

MaxExperiments == 2
MaxPoints == 2
MaxScenes == 2
MaxIndex == 2
MaxWells == 3

----------------------------------------------------------------------------
(* Call results                                                            *)

NotCalled == [status |-> "none"]

Return(v) == [status |-> "ok", value |-> v]

Raise(exc, msg) == [status |-> "raise", exc |-> exc, msg |-> msg]

MsgNoXYPosLoop == "Unable to determine plate geometry: ND2 file does not contain XYPosLoop metadata."

MsgNoXYPosition == "Unable to determine plate geometry: ND2 file does not contain XY position metadata."

\* The f-string of the second RuntimeError: the text and the four numbers
\* it formats (":.0f" of an integer-valued float prints the integer).
MsgExceeds(x_extent, y_extent, full_x, full_y) ==
    <<"ND2 stage extents exceed 96-well geometry. Observed extent vs expected 96-well max",
      x_extent, y_extent, full_x, full_y>>

\* Optional attribute: <<>> is None / absent, <<v>> is the value v.
None == <<>>

Some(v) == <<v>>

\* Python truth value of an optional int: None and 0 are false.
Truthy(o) == o # None /\ o[1] # 0

\* Python `a or b`: a if a is true, else b.
Or(a, b) == IF Truthy(a) THEN a ELSE b

----------------------------------------------------------------------------
(* Plate specifications                                                    *)

\* Mutant: the rows left in the order A..H.
NotReversed(s) == s

Reverse(s) == [i \in 1..Len(s) |-> s[Len(s) + 1 - i]]

Digit == <<"1", "2", "3", "4", "5", "6", "7", "8", "9">>

RECURSIVE Str(_)
Str(i) ==
    IF i < 10 THEN (IF i = 0 THEN "0" ELSE Digit[i])
    ELSE Str(i \div 10) \o (IF i % 10 = 0 THEN "0" ELSE Digit[i % 10])

PLATE_96 ==
    [name |-> "96",
     rows |-> Reverse(<<"A", "B", "C", "D", "E", "F", "G", "H">>),
     cols |-> [i \in 1..12 |-> Str(i)],
     plate_width_mm |-> 12660,
     plate_height_mm |-> 8570,
     a1_offset_mm |-> <<1430, 1136>>,
     well_spacing_um |-> 900]

tolerance_um == 100

----------------------------------------------------------------------------
(* Experiment metadata                                                     *)

\* `"XYPosLoop" in str(exp)`: the descriptor's text names its loop type.
HasMarker(exp) == exp.type = "XYPosLoop"

\* Mutant: the loop without its break, which keeps the last match.
LastLoop(experiment) ==
    IF \E i \in 1..Len(experiment) : HasMarker(experiment[i])
    THEN CHOOSE i \in 1..Len(experiment) :
            /\ HasMarker(experiment[i])
            /\ \A j \in (i + 1)..Len(experiment) : ~HasMarker(experiment[j])
    ELSE 0

\* for exp in rdr.experiment: ... break / else: 0 when no descriptor matches,
\* else the position of the first one that does.
FirstLoop(experiment) ==
    IF \E i \in 1..Len(experiment) : HasMarker(experiment[i])
    THEN CHOOSE i \in 1..Len(experiment) :
            /\ HasMarker(experiment[i])
            /\ \A j \in 1..(i - 1) : ~HasMarker(experiment[j])
    ELSE 0

SetMax(S) == CHOOSE m \in S : \A v \in S : v <= m

SetMin(S) == CHOOSE m \in S : \A v \in S : m <= v

\* [-p.stagePositionUm.x for p in points] and the same for y
NegX(points) == [i \in 1..Len(points) |-> 0 - points[i].x]

NegY(points) == [i \in 1..Len(points) |-> 0 - points[i].y]

Range(s) == {s[i] : i \in 1..Len(s)}

\* xs.max() - xs.min()
Extent(xs) == SetMax(Range(xs)) - SetMin(Range(xs))

full_96_x == (Len(PLATE_96.cols) - 1) * PLATE_96.well_spacing_um

full_96_y == (Len(PLATE_96.rows) - 1) * PLATE_96.well_spacing_um

\* Mutant: the tolerance boundary excluded.
AcceptsStrict(x_extent, y_extent) ==
    x_extent < full_96_x + tolerance_um /\ y_extent < full_96_y + tolerance_um

Accepts(x_extent, y_extent) ==
    x_extent <= full_96_x + tolerance_um /\ y_extent <= full_96_y + tolerance_um

determine_plate_spec(r) ==
    LET k == FirstLoop(r.experiment) IN
    IF k = 0 THEN Raise("RuntimeError", MsgNoXYPosLoop)
    ELSE LET points == r.experiment[k].points IN
         \* numpy: max of a zero-size array raises ValueError
         IF Len(points) = 0
         THEN Raise("ValueError", "zero-size array to reduction operation maximum which has no identity")
         ELSE LET x_extent == Extent(NegX(points))
                  y_extent == Extent(NegY(points))
              IN IF Accepts(x_extent, y_extent)
                 THEN Return(PLATE_96)
                 ELSE Raise("RuntimeError",
                            MsgExceeds(x_extent, y_extent, full_96_x, full_96_y))

\* PlateWell(row, col, center_x, center_y)
PlateWell(row, col, cx, cy) ==
    [row |-> row, col |-> col, center_x |-> cx, center_y |-> cy]

plate_center(s) == <<s.plate_width_mm \div 2, s.plate_height_mm \div 2>>

\* Mutant: A1 measured from the plate corner, not from the plate center.
a1_center_corner(s) == <<s.a1_offset_mm[1], s.a1_offset_mm[2]>>

a1_center(s) ==
    <<s.a1_offset_mm[1] - plate_center(s)[1], s.a1_offset_mm[2] - plate_center(s)[2]>>

\* Element r*len(cols) + c (0-based) of the list the nested loops append to.
generate_plate_geometry(s) ==
    LET nc == Len(s.cols) IN
    [n \in 1..(Len(s.rows) * nc) |->
        LET row_index == (n - 1) \div nc
            column_index == (n - 1) % nc
        IN PlateWell(s.rows[row_index + 1], s.cols[column_index + 1],
                     a1_center(s)[1] + column_index * s.well_spacing_um,
                     a1_center(s)[2] + row_index * s.well_spacing_um)]

get_plate_geometry_from_nd2(r) ==
    LET s == determine_plate_spec(r) IN
    IF s.status = "ok" THEN Return(generate_plate_geometry(s.value)) ELSE s

\* Mutant: an empty table instead of the error when no loop is found.
extract_position_stage_xy_um_default(r) ==
    LET k == FirstLoop(r.experiment) IN
    IF k = 0 THEN Return(<<>>)
    ELSE LET points == r.experiment[k].points IN
         Return([i \in 0..(Len(points) - 1) |->
                    <<0 - points[i + 1].x, 0 - points[i + 1].y>>])

extract_position_stage_xy_um(r) ==
    LET k == FirstLoop(r.experiment) IN
    IF k = 0 THEN Raise("RuntimeError", MsgNoXYPosition)
    ELSE LET points == r.experiment[k].points IN
         Return([i \in 0..(Len(points) - 1) |->
                    <<0 - points[i + 1].x, 0 - points[i + 1].y>>])

----------------------------------------------------------------------------
(* Scene-to-position mapping                                               *)

\* rdr.frame_metadata(scene_index)
frame_metadata(r, scene_index) == r.frames[scene_index + 1]

\* getattr(getattr(fm, "position", None), "index", None)
OwnIndex(fm) == fm.position

\* getattr(getattr(getattr(fm, "channels", [None])[0], "position", None),
\*         "index", None)
ChannelIndex(fm) == fm.channel0

\* Mutant: position 0 instead of the scene's own index as the last resort.
PosIndexZero(fm, scene_index) ==
    Or(Or(OwnIndex(fm), ChannelIndex(fm)), Some(0))[1]

\* own or channel or scene_index
PosIndex(fm, scene_index) ==
    Or(Or(OwnIndex(fm), ChannelIndex(fm)), Some(scene_index))[1]

extract_scene_to_position_index(r, n) ==
    [scene_index \in 0..(n - 1) |->
        PosIndex(frame_metadata(r, scene_index), scene_index)]

----------------------------------------------------------------------------
(* Well assignment                                                         *)

WellPosition(row, col) == [row |-> row, col |-> col]

\* Mutant: the sign of the y term wrong.
KeySignError(x, y, w) ==
    (x - w.center_x) * (x - w.center_x) + (y + w.center_y) * (y + w.center_y)

\* key=lambda w: (x - w.center_x) ** 2 + (y - w.center_y) ** 2
Key(x, y, w) ==
    (x - w.center_x) * (x - w.center_x) + (y - w.center_y) * (y - w.center_y)

\* Mutant: an equal key replaces the running best, so the last minimum wins.
BetterOrEqual(x, y, w, best) == Key(x, y, w) <= Key(x, y, best)

\* The builtin min: the running best is replaced only by a strictly smaller
\* key, so the first of several minimal items is the one returned.
Better(x, y, w, best) == Key(x, y, w) < Key(x, y, best)

\* `best` is the position in ws of the running best.
RECURSIVE MinScan(_, _, _, _, _)
MinScan(x, y, ws, i, best) ==
    IF i > Len(ws) THEN best
    ELSE IF Better(x, y, ws[i], ws[best])
         THEN MinScan(x, y, ws, i + 1, i)
         ELSE MinScan(x, y, ws, i + 1, best)

find_closest_well(x, y, ws) ==
    IF Len(ws) = 0
    THEN Raise("ValueError", "min() arg is an empty sequence")
    ELSE LET best == ws[MinScan(x, y, ws, 2, 1)]
         IN Return(WellPosition(best.row, best.col))

\* Mutant: position_xy.get(pos_index, (0, 0)).
LookupDefault(pxy, pos_index) ==
    IF pos_index \in DOMAIN pxy THEN Return(pxy[pos_index]) ELSE Return(<<0, 0>>)

\* position_xy[pos_index] of a key the dict lacks raises KeyError
Lookup(pxy, pos_index) ==
    IF pos_index \in DOMAIN pxy
    THEN Return(pxy[pos_index])
    ELSE Raise("KeyError", Str(pos_index))

\* The loop over scene_to_position.items(), in the order the keys were
\* inserted (ascending for a dict built over range(num_scenes)); `mapping`
\* is the local dict, lost when an iteration raises.
RECURSIVE MapLoop(_, _, _, _, _)
MapLoop(s2p, pxy, ws, todo, mapping) ==
    IF todo = {} THEN Return(mapping)
    ELSE LET scene_index == SetMin(todo)
             xy == Lookup(pxy, s2p[scene_index])
         IN IF xy.status # "ok" THEN xy
            ELSE LET w == find_closest_well(xy.value[1], xy.value[2], ws)
                 IN IF w.status # "ok" THEN w
                    ELSE MapLoop(s2p, pxy, ws, todo \ {scene_index},
                                 (scene_index :> w.value) @@ mapping)

\* Mutant: position_xy[scene_index] instead of position_xy[pos_index].
map_scenes_to_wells_by_scene(s2p, pxy, ws) ==
    MapLoop([k \in DOMAIN s2p |-> k], pxy, ws, DOMAIN s2p, <<>>)

map_scenes_to_wells(s2p, pxy, ws) == MapLoop(s2p, pxy, ws, DOMAIN s2p, <<>>)

----------------------------------------------------------------------------
(* Inputs                                                                  *)

SeqsUpTo(S, n) == UNION {[1..k -> S] : k \in 0..n}

\* Raw stage coordinates.  Negated they are A = (0, 0), B = (10000, 6400)
\* and C = (10001, -1): A-B lies on both acceptance boundaries (100000 um
\* and 64000 um), A-C exceeds on x alone and B-C on y alone.
StagePoints ==
    {[x |-> 0, y |-> 0], [x |-> -10000, y |-> -6400], [x |-> -10001, y |-> 1]}

PointLists == SeqsUpTo(StagePoints, MaxPoints)

XYPosLoop(points) == [type |-> "XYPosLoop", points |-> points]

TimeLoop == [type |-> "TimeLoop", points |-> <<>>]

Descriptors == {TimeLoop} \cup {XYPosLoop(p) : p \in PointLists}

Experiments == SeqsUpTo(Descriptors, MaxExperiments)

OptIndex == {None} \cup {Some(i) : i \in 0..MaxIndex}

Frames == [position : OptIndex, channel0 : OptIndex]

FrameLists == SeqsUpTo(Frames, MaxScenes)

File(experiment, frames) == [experiment |-> experiment, frames |-> frames]

\* Section 8's end-to-end file: four positions, two scenes at position 1.
ScenarioPoints ==
    <<[x |-> 0, y |-> 0], [x |-> -900, y |-> 0],
      [x |-> 0, y |-> -900], [x |-> -900, y |-> -900]>>

ScenarioFrame == [position |-> Some(1), channel0 |-> None]

ScenarioFile ==
    File(<<TimeLoop, XYPosLoop(ScenarioPoints)>>, <<ScenarioFrame, ScenarioFrame>>)

\* A file without a position loop (tests: ND2_maxime_BF007.nd2).
NoLoopFile == File(<<TimeLoop>>, <<[position |-> None, channel0 |-> None]>>)

Fixtures == {ScenarioFile, NoLoopFile}

\* Synthetic wells: two labels on each of three centers, so that equal keys
\* occur between different wells and the wells differ on both axes.
SyntheticWells ==
    {PlateWell(row, "1", c[1], c[2]) :
        row \in {"A", "B"}, c \in {<<0, 0>>, <<900, 0>>, <<0, 900>>}}

WellLists == SeqsUpTo(SyntheticWells, MaxWells)

\* (450, 0) is equidistant from the synthetic centers; (-4450, -2699) is
\* equidistant from four wells of the 96-well plate.
QueryPoints ==
    {<<0, 0>>, <<450, 0>>, <<900, 0>>, <<500, 450>>, <<-4450, -2699>>}

\* Translation vectors, the null vector among them.
Shifts == {<<0, 0>>, <<450, 0>>, <<-900, 300>>, <<1, -1>>}

\* The well list with every center moved by d.
Translate(ws, d) ==
    [i \in 1..Len(ws) |->
        PlateWell(ws[i].row, ws[i].col, ws[i].center_x + d[1], ws[i].center_y + d[2])]

TableCoords == {<<0, 0>>, <<900, 0>>, <<-4450, -2699>>}

PositionTables == UNION {[0..(n - 1) -> TableCoords] : n \in 0..MaxPoints}

SceneMaps == UNION {[S -> 0..MaxIndex] : S \in SUBSET (0..(MaxScenes - 1))}

----------------------------------------------------------------------------
(* The session: a file and the results of the calls made on it             *)

NoQuery == [query |-> <<>>, ret |-> NotCalled]

NoTranslation == [query |-> <<>>, shift |-> <<>>, ret |-> NotCalled]

Fresh ==
    /\ spec = NotCalled
    /\ wells = NotCalled
    /\ position_xy = NotCalled
    /\ num_scenes = 0
    /\ scene_to_position = NotCalled
    /\ closest = NoQuery
    /\ translated = NoTranslation
    /\ scene_to_well = NotCalled

Init == rdr \in Fixtures /\ Fresh

DeterminePlateSpec ==
    /\ spec' = determine_plate_spec(rdr)
    /\ UNCHANGED <<rdr, wells, position_xy, num_scenes, scene_to_position, closest, translated, scene_to_well>>

GeneratePlateGeometry ==
    /\ spec.status = "ok"
    /\ wells' = Return(generate_plate_geometry(spec.value))
    /\ UNCHANGED <<rdr, spec, position_xy, num_scenes, scene_to_position, closest, translated, scene_to_well>>

GetPlateGeometryFromNd2 ==
    /\ wells' = get_plate_geometry_from_nd2(rdr)
    /\ UNCHANGED <<rdr, spec, position_xy, num_scenes, scene_to_position, closest, translated, scene_to_well>>

ExtractPositionStageXY ==
    /\ position_xy' = extract_position_stage_xy_um(rdr)
    /\ UNCHANGED <<rdr, spec, wells, num_scenes, scene_to_position, closest, translated, scene_to_well>>

ExtractSceneToPositionIndex ==
    \E n \in 0..Len(rdr.frames) :
        /\ num_scenes' = n
        /\ scene_to_position' = Return(extract_scene_to_position_index(rdr, n))
        /\ UNCHANGED <<rdr, spec, wells, position_xy, closest, translated, scene_to_well>>

FindClosestWell ==
    \E q \in QueryPoints :
        /\ wells.status = "ok"
        /\ closest' = [query |-> q, ret |-> find_closest_well(q[1], q[2], wells.value)]
        /\ UNCHANGED <<rdr, spec, wells, position_xy, num_scenes, scene_to_position, translated, scene_to_well>>

\* A second call: the query of the last call and the wells, both moved by d.
FindClosestWellTranslated ==
    \E d \in Shifts :
        /\ wells.status = "ok"
        /\ closest.ret.status # "none"
        /\ translated' =
              [query |-> closest.query, shift |-> d,
               ret |-> find_closest_well(closest.query[1] + d[1], closest.query[2] + d[2],
                                         Translate(wells.value, d))]
        /\ UNCHANGED <<rdr, spec, wells, position_xy, num_scenes, scene_to_position, closest, scene_to_well>>

MapScenesToWells ==
    /\ scene_to_position.status = "ok"
    /\ position_xy.status = "ok"
    /\ wells.status = "ok"
    /\ scene_to_well' =
         map_scenes_to_wells(scene_to_position.value, position_xy.value, wells.value)
    /\ UNCHANGED <<rdr, spec, wells, position_xy, num_scenes, scene_to_position, closest, translated>>

Next ==
    \/ DeterminePlateSpec
    \/ GeneratePlateGeometry
    \/ GetPlateGeometryFromNd2
    \/ ExtractPositionStageXY
    \/ ExtractSceneToPositionIndex
    \/ FindClosestWell
    \/ MapScenesToWells

Spec == Init /\ [][Next]_vars

\* The resolver, generator and extractor on synthetic experiment lists.
InitPlate == rdr \in {File(e, <<>>) : e \in Experiments} /\ Fresh

NextPlate ==
    \/ DeterminePlateSpec
    \/ GeneratePlateGeometry
    \/ GetPlateGeometryFromNd2
    \/ ExtractPositionStageXY

SpecPlate == InitPlate /\ [][NextPlate]_vars

\* The scene-to-position mapper on synthetic frame metadata.
InitScenes == rdr \in {File(<<>>, f) : f \in FrameLists} /\ Fresh

NextScenes == ExtractSceneToPositionIndex

SpecScenes == InitScenes /\ [][NextScenes]_vars

\* find_closest_well on synthetic well lists.
InitClosest ==
    /\ rdr = File(<<>>, <<>>)
    /\ wells \in {Return(w) : w \in WellLists}
    /\ spec = NotCalled
    /\ position_xy = NotCalled
    /\ num_scenes = 0
    /\ scene_to_position = NotCalled
    /\ closest = NoQuery
    /\ translated = NoTranslation
    /\ scene_to_well = NotCalled

NextClosest == FindClosestWell \/ FindClosestWellTranslated

SpecClosest == InitClosest /\ [][NextClosest]_vars

\* map_scenes_to_wells on synthetic tables over the 96-well plate.
InitCompose ==
    /\ rdr = File(<<>>, <<>>)
    /\ wells = Return(generate_plate_geometry(PLATE_96))
    /\ position_xy \in {Return(t) : t \in PositionTables}
    /\ scene_to_position \in {Return(m) : m \in SceneMaps}
    /\ num_scenes = 0
    /\ spec = NotCalled
    /\ closest = NoQuery
    /\ translated = NoTranslation
    /\ scene_to_well = NotCalled

NextCompose == MapScenesToWells

SpecCompose == InitCompose /\ [][NextCompose]_vars

----------------------------------------------------------------------------
(* Properties of the resolver and the extractor (SpecPlate) and of the      *)
(* generator (Spec)                                                        *)

\* The positions of the descriptors that carry the position-loop marker.
LoopPositions == {i \in 1..Len(rdr.experiment) : rdr.experiment[i].type = "XYPosLoop"}

\* The point list of the first such descriptor (<<>> when there is none).
LoopPoints ==
    IF LoopPositions = {} THEN <<>>
    ELSE rdr.experiment[CHOOSE i \in LoopPositions : \A j \in LoopPositions : i <= j].points

\* max - min of the negated x (y) coordinates is at most `limit`.
XWithin(limit) ==
    \A i, j \in 1..Len(LoopPoints) : (0 - LoopPoints[i].x) - (0 - LoopPoints[j].x) <= limit

YWithin(limit) ==
    \A i, j \in 1..Len(LoopPoints) : (0 - LoopPoints[i].y) - (0 - LoopPoints[j].y) <= limit

IsGeometryExceeds(r) ==
    /\ r.status = "raise"
    /\ r.exc = "RuntimeError"
    /\ r.msg[1] = "ND2 stage extents exceed 96-well geometry. Observed extent vs expected 96-well max"

\* C1: with a position loop of at least one stage position, determine_plate_spec
\* returns the 96-well spec iff x_extent <= (12-1)*9000 + 1000 um and
\* y_extent <= (8-1)*9000 + 1000 um (inclusive); otherwise it raises the
\* 'geometry exceeds' error and returns nothing.
C1_AcceptIffWithinTolerance ==
    (spec.status # "none" /\ Len(LoopPoints) >= 1) =>
        IF XWithin((12 - 1) * 900 + 100) /\ YWithin((8 - 1) * 900 + 100)
        THEN spec.status = "ok" /\ spec.value = PLATE_96
        ELSE IsGeometryExceeds(spec)

\* C1 witness: a file whose extents lie exactly on both boundaries is accepted.
C1_Witness ==
    /\ spec.status = "ok"
    /\ ~XWithin((12 - 1) * 900 + 100 - 1)
    /\ ~YWithin((8 - 1) * 900 + 100 - 1)

IsMissingPositionMetadata(r) ==
    /\ r.status = "raise"
    /\ r.exc = "RuntimeError"
    /\ r.msg \in {MsgNoXYPosLoop, MsgNoXYPosition}

\* C2: when no experiment descriptor carries the position-loop marker (an empty
\* list included), determine_plate_spec and extract_position_stage_xy_um raise
\* the 'no position metadata' error, and get_plate_geometry_from_nd2 raises the
\* very error determine_plate_spec raises.
C2_MissingLoopRaises ==
    LoopPositions = {} =>
        /\ spec.status # "none" => IsMissingPositionMetadata(spec)
        /\ position_xy.status # "none" => IsMissingPositionMetadata(position_xy)
        /\ wells.status # "none" => wells = Raise("RuntimeError", MsgNoXYPosLoop)
        /\ (spec.status # "none" /\ wells.status # "none") => wells = spec

\* C2 witness: all three functions were called on a file whose only descriptor
\* is not a position loop.
C2_Witness ==
    /\ LoopPositions = {}
    /\ Len(rdr.experiment) >= 1
    /\ IsMissingPositionMetadata(spec)
    /\ IsMissingPositionMetadata(position_xy)
    /\ IsMissingPositionMetadata(wells)

RowsHtoA == <<"H", "G", "F", "E", "D", "C", "B", "A">>

Cols1to12 == <<"1", "2", "3", "4", "5", "6", "7", "8", "9", "10", "11", "12">>

\* C6: the geometry of the 96-well entry has 96 wells in row-major order, well
\* r*12 + c labelled (rows[r], str(c+1)) with rows H..A, centered at
\* (-49000 + c*9000, -31490 + r*9000) um, labels and centers pairwise distinct.
C6_Geometry96 ==
    (wells.status = "ok") =>
        LET g == wells.value IN
        /\ Len(g) = 96
        /\ \A r \in 0..7 : \A c \in 0..11 :
              g[r * 12 + c + 1] =
                  [row |-> RowsHtoA[r + 1], col |-> Cols1to12[c + 1],
                   center_x |-> (1430 - 6330) + c * 900,
                   center_y |-> (1136 - 4285) + r * 900]
        /\ \A i, j \in 1..Len(g) :
              i # j => /\ <<g[i].row, g[i].col>> # <<g[j].row, g[j].col>>
                       /\ <<g[i].center_x, g[i].center_y>> # <<g[j].center_x, g[j].center_y>>

\* C6 witness: a generated geometry whose first well is H1 at (-49000, -31490) um.
C6_Witness ==
    /\ wells.status = "ok"
    /\ spec.status = "ok"
    /\ wells.value[1] = [row |-> "H", col |-> "1", center_x |-> -4900, center_y |-> -3149]

\* C10: the extractor's table has the keys 0..n-1 and holds (-x_i, -y_i) of the
\* i-th point of the first descriptor carrying the marker; the resolver judges
\* the extents of exactly these values, and reports them when it rejects.
TableExtent(t, axis) ==
    SetMax({t[i][axis] : i \in DOMAIN t}) - SetMin({t[i][axis] : i \in DOMAIN t})

C10_TableMatchesResolver ==
    (position_xy.status # "none" /\ LoopPositions # {}) =>
        /\ position_xy.status = "ok"
        /\ DOMAIN position_xy.value = 0..(Len(LoopPoints) - 1)
        /\ \A i \in DOMAIN position_xy.value :
              position_xy.value[i] = <<0 - LoopPoints[i + 1].x, 0 - LoopPoints[i + 1].y>>
        /\ (spec.status # "none" /\ Len(LoopPoints) >= 1) =>
              LET xe == TableExtent(position_xy.value, 1)
                  ye == TableExtent(position_xy.value, 2)
              IN /\ spec.status = "ok" <=> (xe <= 10000 /\ ye <= 6400)
                 /\ spec.status = "raise" => (spec.msg[2] = xe /\ spec.msg[3] = ye)

\* C10 witness: two position loops with different points, both functions called,
\* the resolver rejecting the first loop's points.
C10_Witness ==
    /\ Cardinality(LoopPositions) = 2
    /\ rdr.experiment[1].points # rdr.experiment[2].points
    /\ Len(LoopPoints) = 2
    /\ LoopPoints[1] # LoopPoints[2]
    /\ position_xy.status = "ok"
    /\ IsGeometryExceeds(spec)

----------------------------------------------------------------------------
(* Properties of the scene-to-position mapper (SpecScenes)                 *)

Returned == scene_to_position.status = "ok"

\* C3: 'first present value wins': a scene whose own metadata carries a position
\* index p >= 0 maps to p; a scene without one whose first channel carries q >= 0
\* maps to q.
C3_FirstPresentWins ==
    Returned =>
        \A s \in DOMAIN scene_to_position.value :
            LET fm == rdr.frames[s + 1] IN
            /\ fm.position # <<>> => scene_to_position.value[s] = fm.position[1]
            /\ (fm.position = <<>> /\ fm.channel0 # <<>>) =>
                  scene_to_position.value[s] = fm.channel0[1]

\* C4: the mapping has exactly the keys 0..num_scenes-1, and a scene whose own
\* and first-channel metadata both lack a position index maps to its own index.
C4_FallbackToSceneIndex ==
    Returned =>
        /\ DOMAIN scene_to_position.value = 0..(num_scenes - 1)
        /\ \A s \in 0..(num_scenes - 1) :
              (rdr.frames[s + 1].position = <<>> /\ rdr.frames[s + 1].channel0 = <<>>) =>
                  scene_to_position.value[s] = s

\* C4 witness: two scenes, the second without any position index, mapped to 1.
C4_Witness ==
    /\ Returned
    /\ num_scenes = 2
    /\ rdr.frames[2] = [position |-> <<>>, channel0 |-> <<>>]
    /\ scene_to_position.value[1] = 1

----------------------------------------------------------------------------
(* Properties of find_closest_well (SpecClosest)                           *)

Dist2(q, w) ==
    (q[1] - w.center_x) * (q[1] - w.center_x) + (q[2] - w.center_y) * (q[2] - w.center_y)

\* The first position of ws whose squared distance to q is minimal.
FirstNearest(q, ws) ==
    CHOOSE i \in 1..Len(ws) :
        /\ \A j \in 1..Len(ws) : Dist2(q, ws[i]) <= Dist2(q, ws[j])
        /\ \A j \in 1..(i - 1) : Dist2(q, ws[j]) > Dist2(q, ws[i])

\* C5: over a non-empty well sequence find_closest_well returns the (row, col) of
\* the first well, in iteration order, whose squared distance to the query point
\* is minimal.
C5_FirstMinimumWins ==
    (closest.ret.status # "none" /\ Len(wells.value) >= 1) =>
        /\ closest.ret.status = "ok"
        /\ LET w == wells.value[FirstNearest(closest.query, wells.value)]
           IN closest.ret.value = [row |-> w.row, col |-> w.col]

\* C5 witness: two wells with different labels tie for the minimum, the first of
\* them is not the head of the list, and it is the one returned.
C5_Witness ==
    /\ closest.ret.status = "ok"
    /\ Len(wells.value) >= 3
    /\ LET i == FirstNearest(closest.query, wells.value) IN
       /\ i > 1
       /\ \E j \in (i + 1)..Len(wells.value) :
             /\ Dist2(closest.query, wells.value[j]) = Dist2(closest.query, wells.value[i])
             /\ wells.value[j].row # wells.value[i].row
       /\ closest.ret.value.row = wells.value[i].row

----------------------------------------------------------------------------
(* Properties of map_scenes_to_wells (SpecCompose)                         *)

S2P == scene_to_position.value

PXY == position_xy.value

AllPresent == \A s \in DOMAIN S2P : S2P[s] \in DOMAIN PXY

\* C7: when every position index is in the table, the result has the scene keys
\* of the input and gives each scene the well find_closest_well picks for the
\* coordinates of its own position; scenes at one position share their well.
C7_ComposesLookups ==
    (scene_to_well.status # "none" /\ AllPresent) =>
        /\ scene_to_well.status = "ok"
        /\ DOMAIN scene_to_well.value = DOMAIN S2P
        /\ \A s \in DOMAIN S2P :
              scene_to_well.value[s] =
                  find_closest_well(PXY[S2P[s]][1], PXY[S2P[s]][2], wells.value).value
        /\ \A s, t \in DOMAIN S2P :
              S2P[s] = S2P[t] => scene_to_well.value[s] = scene_to_well.value[t]

\* C7 witness: two scenes at one position whose well differs from the well of the
\* position with the scenes' own indices.
C7_Witness ==
    /\ scene_to_well.status = "ok"
    /\ DOMAIN S2P = {0, 1}
    /\ S2P[0] = 1
    /\ S2P[1] = 1
    /\ scene_to_well.value[0] = scene_to_well.value[1]
    /\ scene_to_well.value[0] #
          find_closest_well(PXY[0][1], PXY[0][2], wells.value).value

SomeMissing == \E s \in DOMAIN S2P : S2P[s] \notin DOMAIN PXY

\* The call raised KeyError for the first missing index; a raised call carries no
\* value.
C9_Fails == (scene_to_well.status # "none" /\ SomeMissing) =>
                scene_to_well = Raise("KeyError", Str(S2P[SetMin({s \in DOMAIN S2P : S2P[s] \notin DOMAIN PXY})]))

C9_InputsKept ==
    scene_to_well' # scene_to_well =>
        UNCHANGED <<scene_to_position, position_xy, wells>>

\* C9: when some scene's position index is not in the table the call raises
\* KeyError and returns no mapping at all (no default coordinate, no skipped
\* scene, no partial result); a call never changes its three inputs.
C9_MissingIndexIsFatal == [](C9_Fails) /\ [][C9_InputsKept]_vars

\* C9 witness: the first scene resolves, a later one does not, and the call raised.
C9_Witness ==
    /\ scene_to_well.status = "raise"
    /\ scene_to_well.exc = "KeyError"
    /\ DOMAIN S2P = {0, 1}
    /\ S2P[0] \in DOMAIN PXY
    /\ S2P[1] \notin DOMAIN PXY

----------------------------------------------------------------------------
(* The end-to-end scenario (Spec)                                          *)

WellE7 == [row |-> "E", col |-> "7"]

\* C8: on the scenario file (positions (0,0), (9000,0), (0,9000), (9000,9000) um
\* after negation, two scenes with position index 1) every stage of the chain
\* succeeds and both scenes get well E7, the well nearest (9000, 0), whose center
\* is (5000, -4490) um.
C8_ScenarioE7 ==
    rdr = ScenarioFile =>
        /\ spec.status # "none" => spec = Return(PLATE_96)
        /\ wells.status # "none" =>
              /\ wells.status = "ok"
              /\ \E i \in 1..Len(wells.value) :
                    /\ wells.value[i] = [row |-> "E", col |-> "7", center_x |-> 500, center_y |-> -449]
                    /\ \A j \in 1..Len(wells.value) :
                          j # i => Dist2(<<900, 0>>, wells.value[j]) > Dist2(<<900, 0>>, wells.value[i])
        /\ position_xy.status # "none" =>
              position_xy = Return([i \in 0..3 |-> <<<<0, 0>>, <<900, 0>>, <<0, 900>>, <<900, 900>>>>[i + 1]])
        /\ (scene_to_position.status # "none" /\ num_scenes = 2) =>
              scene_to_position = Return([s \in 0..1 |-> 1])
        /\ scene_to_well.status # "none" =>
              /\ scene_to_well.status = "ok"
              /\ \A s \in DOMAIN scene_to_well.value : scene_to_well.value[s] = WellE7
              /\ DOMAIN scene_to_well.value = {0, 1} =>
                    scene_to_well.value[0] = scene_to_well.value[1]

\* C8 witness: the chain has run to its end on the scenario file.
C8_Witness ==
    /\ rdr = ScenarioFile
    /\ spec.status = "ok"
    /\ num_scenes = 2
    /\ scene_to_well.status = "ok"
    /\ DOMAIN scene_to_well.value = {0, 1}
    /\ scene_to_well.value[0] = WellE7
    /\ scene_to_well.value[1] = WellE7

----------------------------------------------------------------------------
(* Translation of find_closest_well (SpecClosest)                          *)

----------------------------------------------------------------------------
(* Outcomes of the resolver (SpecPlate)                                    *)

\* C12: determine_plate_spec ends in exactly one of three ways: it returns the
\* 96-well spec, it raises the 'no position metadata' error, or it raises the
\* 'geometry exceeds supported plate' error; nothing else, a position loop with
\* zero stage positions included.
C12_ThreeOutcomes ==
    spec.status # "none" =>
        IF LoopPositions = {}
        THEN IsMissingPositionMetadata(spec)
        ELSE \/ spec.status = "ok" /\ spec.value = PLATE_96
             \/ IsGeometryExceeds(spec)

====
